---- MODULE Spec2Model ----
(***************************************************************************)
(* PocketUniverse: the injected provider proxy (src/unnamed/part_000, the  *)
(* injected script) and the simulation store (src/src/lib/storage.ts).     *)
(*                                                                         *)
(* The page reads window.ethereum (the provider binding), reads a property *)
(* of the proxy it got (the proxy's get trap) and calls the function it    *)
(* read.  An intercepted call awaits the chain id, then the request        *)
(* manager's decision; the dispatch behind that decision stores the        *)
(* request with fetchSimulationAndUpdate.  Every await is a step boundary. *)
(***************************************************************************)
EXTENDS Naturals, Sequences, FiniteSets

VARIABLES
  currentProvider,  \* part_000:23  the underlying provider, possibly undefined
  cachedProxy,      \* part_000:19  reference of the cached Proxy, 0 = undefined
  providerChanged,  \* part_000:25  the dirty flag
  proxies,          \* the Proxy objects created so far: reference n wraps proxies[n]
  getHist,          \* history: what the last read of window.ethereum gave, and
                    \* whether window.ethereum was written since
  disable,          \* settings.disable
  calls,            \* the page's calls, one record per slot
  simulations,      \* chrome.storage.sync document under STORAGE_KEY
  nextId,           \* the next fresh request id
  storeOp           \* the last call of the store's API

vars == <<currentProvider, cachedProxy, providerChanged, proxies, getHist,
          disable, calls, simulations, nextId, storeOp>>

bindingVars == <<currentProvider, cachedProxy, providerChanged, proxies, getHist>>

-----------------------------------------------------------------------------
(* Bounds *)

MaxProxies == 2
MaxParams == 3
MaxIds == 2
MaxConcurrent == 2

-----------------------------------------------------------------------------
(* Values *)

Undefined == "undefined"
Providers == {"MetaMask", "Coinbase"}
ProviderValues == Providers \cup {Undefined}

ReservedProps == {"request", "send", "sendAsync"}
Props == ReservedProps \cup {"isMetaMask"}

SendTransaction == "eth_sendTransaction"
SignTypedDataV3 == "eth_signTypedData_v3"
SignTypedDataV4 == "eth_signTypedData_v4"
Methods == {SendTransaction, SignTypedDataV3, SignTypedDataV4, "eth_accounts"}

TxRejectMsg == "PocketUniverse Tx Signature: User denied transaction signature."
SigRejectMsg == "PocketUniverse Message Signature: User denied message signature."

\* The first argument of a call: its method, the length of its params list and
\* whether params[1] is JSON text (a list shorter than two has no params[1]).
NoArgs == [method |-> "none", nparams |-> 0, parsable |-> TRUE]
ArgValues ==
  {a \in [method : Methods, nparams : 0..MaxParams, parsable : BOOLEAN] :
     a.nparams < 2 => a.parsable}

CallSlots == 1..MaxConcurrent

-----------------------------------------------------------------------------
(* Provider binding: Object.defineProperty(window, 'ethereum', ...) *)

NoGet == [kind |-> "none", ref |-> 0]
TypeErrorResult == [kind |-> "TypeError", ref |-> 0]
RefResult(n) == [kind |-> "ref", ref |-> n]

\* new Proxy(target, handler) throws a TypeError unless target is an object.
ProxyCtorThrows(target) == target = Undefined

\* get(): rebuilds the proxy when the provider changed, returns the cached one.
Get ==
  /\ IF providerChanged
       THEN IF ProxyCtorThrows(currentProvider)
              THEN /\ UNCHANGED <<cachedProxy, providerChanged, proxies>>
                   /\ getHist' = [last |-> TypeErrorResult, setSince |-> FALSE]
              ELSE /\ Len(proxies) < MaxProxies
                   /\ proxies' = Append(proxies, currentProvider)
                   /\ cachedProxy' = Len(proxies) + 1
                   /\ providerChanged' = FALSE
                   /\ getHist' = [last |-> RefResult(Len(proxies) + 1),
                                  setSince |-> FALSE]
       ELSE /\ UNCHANGED <<cachedProxy, providerChanged, proxies>>
            /\ getHist' = [last |-> RefResult(cachedProxy), setSince |-> FALSE]
  /\ UNCHANGED <<currentProvider, disable, calls, simulations, nextId, storeOp>>

SetKeepsClean(newProvider) ==
  /\ currentProvider' = newProvider
  /\ getHist' = [getHist EXCEPT !.setSince = TRUE]
  /\ UNCHANGED <<providerChanged, cachedProxy, proxies, disable, calls, simulations, nextId, storeOp>>

\* set(newProvider)
Set(newProvider) ==
  /\ providerChanged' = TRUE
  /\ currentProvider' = newProvider
  /\ getHist' = [getHist EXCEPT !.setSince = TRUE]
  /\ UNCHANGED <<cachedProxy, proxies, disable, calls, simulations, nextId, storeOp>>

InitBinding ==
  /\ currentProvider \in ProviderValues
  /\ cachedProxy = 0
  /\ providerChanged = TRUE
  /\ proxies = <<>>
  /\ getHist = [last |-> NoGet, setSince |-> FALSE]

-----------------------------------------------------------------------------
(* Settings: lib/settings keeps settings.disable up to date. *)

SettingsUpdate ==
  /\ disable' = ~disable
  /\ UNCHANGED <<bindingVars, calls, simulations, nextId, storeOp>>

-----------------------------------------------------------------------------
(* The proxy handler: pocketUniverseProxyHandler.get and the wrapper it returns *)

NoRet == [by |-> "none", prop |-> "none", args |-> NoArgs]
NoResp == [type |-> "none", simulation |-> Undefined, error |-> Undefined]
Pending == [type |-> "pending", simulation |-> Undefined, error |-> Undefined]

\* A call slot nobody uses.
IdleCall ==
  [pc |-> "idle", fn |-> "none", via |-> 0, target |-> Undefined, prop |-> "none",
   args |-> NoArgs, chainTo |-> "none",
   id |-> 0, addpc |-> "none", snap |-> <<>>, resp |-> NoResp, writes |-> 0,
   dispatch |-> "none", decision |-> "none",
   fwd |-> <<>>, outcome |-> "none", ret |-> NoRet, err |-> "none"]

\* What the underlying provider answers to a call: this call of this provider.
ProviderResult(to, prop, args) == [by |-> to, prop |-> prop, args |-> args]

\* originalCall(...args): the call reaches the provider, its result is returned.
ForwardToCurrent(call, args) ==
  [call EXCEPT !.pc = "done",
               !.fwd = Append(call.fwd, [to |-> currentProvider, prop |-> call.prop,
                                         args |-> args]),
               !.outcome = "returned",
               !.ret = ProviderResult(currentProvider, call.prop, args)]

Forward(call, args) ==
  [call EXCEPT !.pc = "done",
               !.fwd = Append(call.fwd, [to |-> call.target, prop |-> call.prop,
                                         args |-> args]),
               !.outcome = "returned",
               !.ret = ProviderResult(call.target, call.prop, args)]

\* throw: the call ends with an error and the provider is not called.
Throw(call, msg) == [call EXCEPT !.pc = "done", !.outcome = "thrown", !.err = msg]

\* The get trap: what reading `prop` gives, the wrapper or the provider's own value.
TrapGivesWrapper(isDisabled, prop) ==
  IF isDisabled THEN FALSE
  ELSE IF prop # "request" /\ prop # "send" /\ prop # "sendAsync" THEN FALSE
  ELSE TRUE

IsInterceptedAlways(method) == TRUE

IsIntercepted(method) ==
  ~(method # SignTypedDataV3 /\ method # SignTypedDataV4 /\ method # SendTransaction)

\* requestArg.params.length !== 1: the transaction request is forwarded as it is.
TxLengthUnexpected(nparams) == nparams # 1

SigLengthTooShort(nparams) == nparams < 2

\* requestArg.params.length !== 2: the signature request is forwarded as it is.
SigLengthUnexpected(nparams) == nparams # 2

\* The wrapper from its start to its first await (or to its end).
WrapperStart(call, args) ==
  IF ~IsIntercepted(args.method) THEN Forward(call, args)
  ELSE IF args.method = SendTransaction
    THEN IF TxLengthUnexpected(args.nparams) THEN Forward(call, args)
         ELSE [call EXCEPT !.pc = "chainId", !.chainTo = call.target]
  ELSE IF args.method = SignTypedDataV3 \/ args.method = SignTypedDataV4
    THEN IF SigLengthUnexpected(args.nparams) THEN Forward(call, args)
         ELSE IF ~args.parsable THEN Throw(call, "SyntaxError")
         ELSE [call EXCEPT !.pc = "chainId", !.chainTo = call.target]
  ELSE Throw(call, "Show never reach here")

RejectMsgOfTransaction(method) == TxRejectMsg

RejectMsg(method) ==
  IF method = SendTransaction THEN TxRejectMsg ELSE SigRejectMsg

WrapperEndBlocksOnError(call, response) ==
  IF response = "Reject" THEN Throw(call, RejectMsg(call.args.method))
  ELSE IF response = "Continue" THEN Forward(call, call.args)
  ELSE [call EXCEPT !.pc = "done", !.outcome = "returned"]

\* The wrapper after the request manager's response.
WrapperEnd(call, response) ==
  IF response = "Reject" THEN Throw(call, RejectMsg(call.args.method))
  ELSE IF response = "Continue" \/ response = "Error" THEN Forward(call, call.args)
  ELSE [call EXCEPT !.pc = "done", !.outcome = "returned"]

\* The page reads property `prop` of proxy reference `px`.
ReadProp(c, px, prop) ==
  /\ calls[c].pc = "idle"
  /\ px \in 1..Len(proxies)
  /\ calls' = [calls EXCEPT ![c] =
       [IdleCall EXCEPT !.pc = "held",
                        !.fn = IF TrapGivesWrapper(disable, prop) THEN "wrapper" ELSE "raw",
                        !.via = px,
                        !.target = proxies[px],
                        !.prop = prop]]
  /\ UNCHANGED <<bindingVars, disable, simulations, nextId, storeOp>>

\* The page calls what it read.
Invoke(c, args) ==
  /\ calls[c].pc = "held"
  /\ LET call == [calls[c] EXCEPT !.args = args]
     IN calls' = [calls EXCEPT ![c] =
          IF call.fn = "wrapper" THEN WrapperStart(call, args) ELSE Forward(call, args)]
  /\ UNCHANGED <<bindingVars, disable, simulations, nextId, storeOp>>

\* target.request({ method: 'eth_chainId' }) rejects: the wrapper's await throws.
ChainIdReject(c) ==
  /\ calls[c].pc = "chainId"
  /\ calls' = [calls EXCEPT ![c] = Throw(calls[c], "ChainIdError")]
  /\ UNCHANGED <<bindingVars, disable, simulations, nextId, storeOp>>

\* The page drops a finished call.
Release(c) ==
  /\ calls[c].pc = "done"
  /\ calls' = [calls EXCEPT ![c] = IdleCall]
  /\ UNCHANGED <<bindingVars, disable, simulations, nextId, storeOp>>

-----------------------------------------------------------------------------
(* The simulation store: src/src/lib/storage.ts *)

Simulating == "Simulating"
Revert == "Revert"
Error == "Error"
Success == "Success"
Rejected == "Reject"
Confirmed == "Confirm"

SimulationPayload == "simulation"
RevertText == "execution reverted"
ErrorText == "server error"

\* What the backend call resolves to: { type, simulation?, error? }.
BackendResponses ==
  { [type |-> Success, simulation |-> SimulationPayload, error |-> Undefined],
    [type |-> Success, simulation |-> Undefined, error |-> Undefined],
    [type |-> Revert, simulation |-> Undefined, error |-> RevertText],
    [type |-> Error, simulation |-> Undefined, error |-> ErrorText],
    [type |-> "Veto", simulation |-> Undefined, error |-> Undefined] }

\* The entry fetchSimulationAndUpdate adds for a request.
NewEntry(id, args) ==
  [id |-> id,
   type |-> IF args.method = SendTransaction THEN "Simulation" ELSE "Signature",
   state |-> Simulating,
   simulation |-> Undefined,
   error |-> Undefined]

AddSimulationTwice(sims, entry) == Append(Append(sims, entry), entry)

\* addSimulation: simulations.push({ ...simulation })
AddSimulation(sims, entry) == Append(sims, entry)

CompleteSimulationPushes(sims, id, simulation) ==
  Append(sims, [id |-> id, type |-> "Simulation", state |-> Success,
                simulation |-> simulation, error |-> Undefined])

\* completeSimulation: forEach entry with this id, state = Success, simulation set
CompleteSimulation(sims, id, simulation) ==
  [i \in DOMAIN sims |->
     IF sims[i].id = id
       THEN [sims[i] EXCEPT !.state = Success, !.simulation = simulation]
       ELSE sims[i]]

RevertSimulationAll(sims, id, error) ==
  [i \in DOMAIN sims |-> [sims[i] EXCEPT !.state = Revert, !.error = error]]

\* revertSimulation: forEach entry with this id, state = Revert, error set
RevertSimulation(sims, id, error) ==
  [i \in DOMAIN sims |->
     IF sims[i].id = id
       THEN [sims[i] EXCEPT !.state = Revert, !.error = error]
       ELSE sims[i]]

\* updateSimulatioWithErrorMsg: map entry with this id to { ...x, error, state: Error }
UpdateSimulatioWithErrorMsg(sims, id, error) ==
  [i \in DOMAIN sims |->
     IF sims[i].id = id
       THEN [sims[i] EXCEPT !.error = error, !.state = Error]
       ELSE sims[i]]

\* updateSimulationState: map entry with this id to { ...x, state }
UpdateSimulationState(sims, id, state) ==
  [i \in DOMAIN sims |->
     IF sims[i].id = id THEN [sims[i] EXCEPT !.state = state] ELSE sims[i]]

\* removeSimulation: filter out the entries with this id
RemoveSimulation(sims, id) == SelectSeq(sims, LAMBDA x : x.id # id)

ClearOldSimulationsRejectedOnly(sims) ==
  SelectSeq(sims, LAMBDA x : x.state # Rejected)

\* clearOldSimulations: keep the entries that are neither Rejected nor Confirmed
ClearOldSimulations(sims) ==
  SelectSeq(sims, LAMBDA x : x.state # Rejected /\ x.state # Confirmed)

\* fetchSimulationAndUpdate after Promise.all: which store operation the response
\* leads to; "throw" is `throw new Error('Invalid state')`, "none" is falling
\* off the end of the function.
TerminalOp(response) ==
  IF response.type = Error THEN "error"
  ELSE IF response.type = Revert THEN "revert"
  ELSE IF response.type = Success
    THEN IF response.simulation = Undefined THEN "throw" ELSE "complete"
  ELSE "none"

\* The document the terminal operation writes, from the document it read.
TerminalWrite(sims, id, response) ==
  IF TerminalOp(response) = "error"
    THEN UpdateSimulatioWithErrorMsg(sims, id, response.error)
  ELSE IF TerminalOp(response) = "revert"
    THEN RevertSimulation(sims, id, response.error)
  ELSE CompleteSimulation(sims, id, response.simulation)

\* The request manager's answer to the wrapper, from how the dispatch ended.
DecisionOf(dispatch, response) ==
  IF dispatch = "threw" THEN "Error"
  ELSE IF response.type = "Veto" THEN "Reject"
  ELSE "Continue"

\* The chain id arrives and the wrapper calls REQUEST_MANAGER.request: the
\* dispatch takes a fresh id and starts addSimulation and the backend call.
ChainIdResolve(c) ==
  /\ calls[c].pc = "chainId"
  /\ calls' = [calls EXCEPT ![c] =
       [calls[c] EXCEPT !.pc = "dispatch", !.id = nextId, !.addpc = "get",
                        !.resp = Pending]]
  /\ nextId' = nextId + 1
  /\ UNCHANGED <<bindingVars, disable, simulations, storeOp>>

\* addSimulation: chrome.storage.sync.get answers.
AddGet(c) ==
  /\ calls[c].pc = "dispatch"
  /\ calls[c].addpc = "get"
  /\ calls' = [calls EXCEPT ![c] = [calls[c] EXCEPT !.addpc = "set", !.snap = simulations]]
  /\ UNCHANGED <<bindingVars, disable, simulations, nextId, storeOp>>

\* addSimulation: push and chrome.storage.sync.set.
AddSet(c) ==
  /\ calls[c].pc = "dispatch"
  /\ calls[c].addpc = "set"
  /\ simulations' = AddSimulation(calls[c].snap, NewEntry(calls[c].id, calls[c].args))
  /\ calls' = [calls EXCEPT ![c] =
       [calls[c] EXCEPT !.addpc = "done", !.snap = <<>>, !.writes = @ + 1]]
  /\ UNCHANGED <<bindingVars, disable, nextId, storeOp>>

\* fetchSimulate / fetchSignature resolves.
BackendResolve(c, response) ==
  /\ calls[c].pc = "dispatch"
  /\ calls[c].resp = Pending
  /\ calls' = [calls EXCEPT ![c] = [calls[c] EXCEPT !.resp = response]]
  /\ UNCHANGED <<bindingVars, disable, simulations, nextId, storeOp>>

PromiseAllResolvedBackendOnly(call) ==
  call.pc = "dispatch" /\ call.resp # Pending

\* await Promise.all([addSimulation(...), backend call]) has both results.
PromiseAllResolved(call) ==
  call.pc = "dispatch" /\ call.addpc = "done" /\ call.resp # Pending

\* The terminal operation's chrome.storage.sync.get answers.
TermGet(c) ==
  /\ PromiseAllResolved(calls[c])
  /\ TerminalOp(calls[c].resp) \in {"error", "revert", "complete"}
  /\ calls' = [calls EXCEPT ![c] = [calls[c] EXCEPT !.pc = "term", !.snap = simulations]]
  /\ UNCHANGED <<bindingVars, disable, simulations, nextId, storeOp>>

\* The terminal operation's chrome.storage.sync.set; fetchSimulationAndUpdate resolves.
TermSet(c) ==
  /\ calls[c].pc = "term"
  /\ simulations' = TerminalWrite(calls[c].snap, calls[c].id, calls[c].resp)
  /\ calls' = [calls EXCEPT ![c] =
       [calls[c] EXCEPT !.pc = "decide", !.snap = <<>>, !.writes = @ + 1,
                        !.dispatch = "resolved"]]
  /\ UNCHANGED <<bindingVars, disable, nextId, storeOp>>

\* fetchSimulationAndUpdate ends without a terminal operation: it throws, or
\* no branch matches the response type.
TermSkip(c) ==
  /\ PromiseAllResolved(calls[c])
  /\ TerminalOp(calls[c].resp) \in {"throw", "none"}
  /\ calls' = [calls EXCEPT ![c] =
       [calls[c] EXCEPT !.pc = "decide",
                        !.dispatch = IF TerminalOp(calls[c].resp) = "throw"
                                       THEN "threw" ELSE "resolved"]]
  /\ UNCHANGED <<bindingVars, disable, simulations, nextId, storeOp>>

\* REQUEST_MANAGER.request resolves and the wrapper runs to its end.
Decide(c) ==
  /\ calls[c].pc = "decide"
  /\ LET response == DecisionOf(calls[c].dispatch, calls[c].resp)
     IN calls' = [calls EXCEPT ![c] =
          WrapperEnd([calls[c] EXCEPT !.decision = response], response)]
  /\ UNCHANGED <<bindingVars, disable, simulations, nextId, storeOp>>

-----------------------------------------------------------------------------
(* The store's API called one call at a time, each call awaited before the next *)

NoStoreOp == [op |-> "none", id |-> 0, arg |-> Undefined, lenBefore |-> 0, repeat |-> FALSE]

\* The record of a call: `repeat` says the call before it was the same call.
StoreOp(op, id, arg) ==
  [op |-> op, id |-> id, arg |-> arg, lenBefore |-> Len(simulations),
   repeat |-> (storeOp.op = op /\ storeOp.id = id /\ storeOp.arg = arg)]

\* addSimulation with the entry of a new request
StoreAdd(args) ==
  /\ nextId <= MaxIds
  /\ simulations' = AddSimulation(simulations, NewEntry(nextId, args))
  /\ nextId' = nextId + 1
  /\ storeOp' = StoreOp("add", nextId, Undefined)
  /\ UNCHANGED <<bindingVars, disable, calls>>

\* completeSimulation(id, simulation)
StoreComplete(id) ==
  /\ simulations' = CompleteSimulation(simulations, id, SimulationPayload)
  /\ storeOp' = StoreOp("complete", id, SimulationPayload)
  /\ UNCHANGED <<bindingVars, disable, calls, nextId>>

\* revertSimulation(id, error)
StoreRevert(id) ==
  /\ simulations' = RevertSimulation(simulations, id, RevertText)
  /\ storeOp' = StoreOp("revert", id, RevertText)
  /\ UNCHANGED <<bindingVars, disable, calls, nextId>>

\* updateSimulatioWithErrorMsg(id, error)
StoreError(id) ==
  /\ simulations' = UpdateSimulatioWithErrorMsg(simulations, id, ErrorText)
  /\ storeOp' = StoreOp("error", id, ErrorText)
  /\ UNCHANGED <<bindingVars, disable, calls, nextId>>

\* updateSimulationState(id, state) with the user's decision
StoreUpdateState(id, state) ==
  /\ simulations' = UpdateSimulationState(simulations, id, state)
  /\ storeOp' = StoreOp("update", id, state)
  /\ UNCHANGED <<bindingVars, disable, calls, nextId>>

\* removeSimulation(id)
StoreRemove(id) ==
  /\ simulations' = RemoveSimulation(simulations, id)
  /\ storeOp' = StoreOp("remove", id, Undefined)
  /\ UNCHANGED <<bindingVars, disable, calls, nextId>>

\* clearOldSimulations()
StoreClear ==
  /\ simulations' = ClearOldSimulations(simulations)
  /\ storeOp' = StoreOp("clear", 0, Undefined)
  /\ UNCHANGED <<bindingVars, disable, calls, nextId>>

-----------------------------------------------------------------------------
(* Specifications *)

Init ==
  /\ InitBinding
  /\ disable \in BOOLEAN
  /\ calls = [c \in CallSlots |-> IdleCall]
  /\ simulations = <<>>
  /\ nextId = 1
  /\ storeOp = NoStoreOp

AllIdle == \A c \in CallSlots : calls[c].pc = "idle"
FirstIdle(c) == calls[c].pc = "idle" /\ \A d \in 1..(c - 1) : calls[d].pc # "idle"

\* One call of the page: its steps after the property read.
CallStep(c) ==
  \/ nextId <= MaxIds /\ ChainIdResolve(c)
  \/ ChainIdReject(c)
  \/ AddGet(c)
  \/ AddSet(c)
  \/ \E response \in BackendResponses : BackendResolve(c, response)
  \/ TermGet(c)
  \/ TermSet(c)
  \/ TermSkip(c)
  \/ Decide(c)
  \/ Release(c)

\* The binding alone: the page reads and replaces window.ethereum.
NextBinding ==
  \/ Get
  \/ \E p \in ProviderValues : Set(p)

SpecBinding == Init /\ [][NextBinding]_vars

\* A page that makes any call through any property of the proxy it got, one call
\* at a time, while the settings change.
NextProxy ==
  \/ Get
  \/ SettingsUpdate
  \/ \E px \in 1..MaxProxies, prop \in Props : AllIdle /\ ReadProp(1, px, prop)
  \/ \E args \in ArgValues : Invoke(1, args)
  \/ CallStep(1)

SpecProxy == Init /\ [][NextProxy]_vars

\* A page that makes well-formed intercepted calls concurrently.
DispatchArgs ==
  { [method |-> SendTransaction, nparams |-> 1, parsable |-> TRUE],
    [method |-> SignTypedDataV4, nparams |-> 2, parsable |-> TRUE] }

NextDispatch ==
  \/ Get
  \/ \E c \in CallSlots, px \in 1..MaxProxies :
       FirstIdle(c) /\ ~disable /\ ReadProp(c, px, "request")
  \/ \E c \in CallSlots, args \in DispatchArgs : Invoke(c, args)
  \/ \E c \in CallSlots : CallStep(c)

SpecDispatch == Init /\ [][NextDispatch]_vars

\* A page that reads `request` and makes one well-formed call at a
\* time, while window.ethereum is read and replaced, also during the call.
NextRebind ==
  \/ Get
  \/ \E p \in ProviderValues : Set(p)
  \/ \E px \in 1..MaxProxies : AllIdle /\ ReadProp(1, px, "request")
  \/ \E args \in DispatchArgs : Invoke(1, args)
  \/ CallStep(1)

SpecRebind == Init /\ [][NextRebind]_vars

\* The store alone: requests are added under fresh ids and any entry, present or
\* not, is completed, reverted, failed, decided, removed or cleaned up.
NextStore ==
  \/ \E args \in DispatchArgs : StoreAdd(args)
  \/ \E id \in 1..MaxIds :
       \/ StoreComplete(id)
       \/ StoreRevert(id)
       \/ StoreError(id)
       \/ \E state \in {Confirmed, Rejected} : StoreUpdateState(id, state)
       \/ StoreRemove(id)
  \/ StoreClear

\* The store reads neither the provider binding nor the settings.
InitStore == Init /\ currentProvider = Undefined /\ ~disable

SpecStore == InitStore /\ [][NextStore]_vars

Spec == SpecProxy

-----------------------------------------------------------------------------
(* Properties *)

SigMethods == {SignTypedDataV3, SignTypedDataV4}

\* The call reached the provider once, with the page's own arguments, and the
\* page got the provider's answer.
ForwardedUnchanged(call) ==
  /\ call.outcome = "returned"
  /\ call.fwd = <<[to |-> call.target, prop |-> call.prop, args |-> call.args]>>
  /\ call.ret = [by |-> call.target, prop |-> call.prop, args |-> call.args]

\* The call never reached the dispatcher and wrote nothing to the store.
NoDispatch(call) ==
  /\ call.id = 0
  /\ call.addpc = "none"
  /\ call.writes = 0
  /\ call.decision = "none"

\* C1: an intercepted call whose decision is Reject ends with the rejection
\* error of its kind (the transaction text for eth_sendTransaction, the message
\* signature text for eth_signTypedData_v3/v4) and never reaches the provider.
C1_RejectThrows ==
  \A c \in CallSlots :
    (calls[c].pc = "done" /\ calls[c].decision = "Reject") =>
      /\ calls[c].outcome = "thrown"
      /\ calls[c].fwd = <<>>
      /\ (calls[c].args.method = SendTransaction /\ calls[c].args.nparams = 1
            => calls[c].err = "PocketUniverse Tx Signature: User denied transaction signature.")
      /\ (calls[c].args.method \in SigMethods /\ calls[c].args.nparams = 2
            => calls[c].err = "PocketUniverse Message Signature: User denied message signature.")
      /\ \/ calls[c].args.method = SendTransaction /\ calls[c].args.nparams = 1
         \/ calls[c].args.method \in SigMethods /\ calls[c].args.nparams = 2

C1_Witness ==
  \E c \in CallSlots :
    /\ calls[c].pc = "done"
    /\ calls[c].decision = "Reject"
    /\ calls[c].args.method = SignTypedDataV3
    /\ calls[c].outcome = "thrown"

\* C2: a wrapper invocation whose dispatcher request returned ends in exactly
\* one of two ways: the rejection error without any forward (only on Reject), or
\* one forward of the original call whose result it returns; before it ends it
\* has not forwarded, and it never forwards twice.
C2_ThrowOrForwardOnce ==
  \A c \in CallSlots :
    /\ Len(calls[c].fwd) <= 1
    /\ calls[c].pc # "done" => calls[c].fwd = <<>>
    /\ (calls[c].pc = "done" /\ calls[c].decision # "none") =>
         \/ /\ calls[c].decision = "Reject"
            /\ calls[c].outcome = "thrown"
            /\ calls[c].err \in {TxRejectMsg, SigRejectMsg}
            /\ calls[c].fwd = <<>>
         \/ /\ calls[c].decision # "Reject"
            /\ ForwardedUnchanged(calls[c])

C2_Witness ==
  \E c \in CallSlots :
    /\ calls[c].pc = "done"
    /\ calls[c].decision = "Error"
    /\ Len(calls[c].fwd) = 1

\* C3: an intercepted call is forwarded whatever fails inside (the typed data
\* does not parse, the chain-id query fails): it is not forwarded only when the
\* decision is Reject.
C3_FailOpen ==
  \A c \in CallSlots :
    ( /\ calls[c].pc = "done"
      /\ calls[c].fn = "wrapper"
      /\ calls[c].args.method \in {SendTransaction, SignTypedDataV3, SignTypedDataV4}
      /\ calls[c].decision # "Reject" )
    => Len(calls[c].fwd) = 1

\* C4: reading a property that is not request/send/sendAsync gives the
\* provider's own value, and a call whose method is not eth_sendTransaction or
\* eth_signTypedData_v3/v4 (or made through such a property) reaches the
\* provider once with the same arguments, returns its result, and neither
\* dispatches nor writes to the store.
C4_PassThrough ==
  \A c \in CallSlots :
    /\ (calls[c].pc # "idle" /\ calls[c].prop \notin {"request", "send", "sendAsync"})
         => calls[c].fn = "raw"
    /\ ( /\ calls[c].pc \notin {"idle", "held"}
         /\ \/ calls[c].prop \notin {"request", "send", "sendAsync"}
            \/ calls[c].args.method
                 \notin {SendTransaction, SignTypedDataV3, SignTypedDataV4} )
       => /\ calls[c].pc = "done"
          /\ ForwardedUnchanged(calls[c])
          /\ NoDispatch(calls[c])

C4_Witness ==
  \E c \in CallSlots :
    /\ calls[c].pc = "done"
    /\ calls[c].fn = "wrapper"
    /\ calls[c].args.method = "eth_accounts"
    /\ Len(calls[c].fwd) = 1
    /\ simulations # <<>>

\* C5: a sendTransaction call made while the disable flag is true is forwarded
\* at once, without a dispatch and without a store entry, whatever reads, calls
\* and settings updates came before.
C5_DisabledForwards ==
  [][ \A c \in CallSlots :
        ( /\ calls[c].pc = "held"
          /\ calls'[c].pc # "held"
          /\ disable
          /\ calls'[c].args.method = SendTransaction )
        => /\ calls'[c].pc = "done"
           /\ ForwardedUnchanged(calls'[c])
           /\ NoDispatch(calls'[c]) ]_vars

\* C6: an eth_sendTransaction call whose params list has not exactly one
\* element, and an eth_signTypedData_v3/v4 call whose params list has not
\* exactly two, is forwarded unchanged, never dispatched, and writes no entry.
C6_LengthMismatchForwards ==
  \A c \in CallSlots :
    ( /\ calls[c].pc \notin {"idle", "held"}
      /\ \/ calls[c].args.method = SendTransaction /\ calls[c].args.nparams # 1
         \/ calls[c].args.method \in SigMethods /\ calls[c].args.nparams # 2 )
    => /\ calls[c].pc = "done"
       /\ ForwardedUnchanged(calls[c])
       /\ NoDispatch(calls[c])

C6_Witness ==
  \E c \in CallSlots :
    /\ calls[c].pc = "done"
    /\ calls[c].fn = "wrapper"
    /\ calls[c].args.method = SignTypedDataV4
    /\ calls[c].args.nparams = 3
    /\ ~calls[c].args.parsable
    /\ Len(calls[c].fwd) = 1

\* C7: two reads of window.ethereum with no write between them give the same
\* object reference; the first read after a write gives a reference that did
\* not exist before and wraps the provider written; every read gives a reference.
C7_ReferentialStability ==
  [][ (getHist' # getHist /\ ~getHist'.setSince) =>
        /\ getHist'.last.kind = "ref"
        /\ (~getHist.setSince /\ getHist.last.kind # "none")
             => getHist'.last = getHist.last
        /\ getHist.setSince =>
             /\ getHist'.last.ref \notin 1..Len(proxies)
             /\ proxies'[getHist'.last.ref] = currentProvider ]_vars

\* C8: reading and writing window.ethereum never throws, also when no provider
\* is installed or the provider written is undefined.
C8_BindingNeverThrows == getHist.last.kind # "TypeError"

Terminal == {Success, Revert, Error}

\* C9: once a signTypedData_v4 call with two parameters whose backend outcome is
\* Success has completed, the original call was forwarded with its result
\* unchanged and the store holds the request's entry in state Success with the
\* simulation the backend returned.
C9_SuccessStored ==
  \A c \in CallSlots :
    ( /\ calls[c].pc = "done"
      /\ calls[c].args.method = SignTypedDataV4
      /\ calls[c].args.nparams = 2
      /\ calls[c].resp.type = Success
      /\ calls[c].resp.simulation # Undefined )
    => /\ ForwardedUnchanged(calls[c])
       /\ \E i \in DOMAIN simulations :
            /\ simulations[i].id = calls[c].id
            /\ simulations[i].state = Success
            /\ simulations[i].simulation = calls[c].resp.simulation

\* C10: a dispatch whose backend call resolved, whatever the result kind, has
\* moved its entry out of Simulating when it finishes: the entry is in a
\* terminal decision state.
C10_LeavesSimulating ==
  \A c \in CallSlots :
    (calls[c].pc \in {"decide", "done"} /\ calls[c].resp \in BackendResponses) =>
      \E i \in DOMAIN simulations :
        /\ simulations[i].id = calls[c].id
        /\ simulations[i].state \in Terminal

\* C11: the dispatch never raises: whatever the backend answers, also a Success
\* without a simulation, fetchSimulationAndUpdate ends without an exception and
\* the request's entry is written to state Error, not left in Simulating.
C11_DispatchNeverRaises ==
  \A c \in CallSlots :
    (calls[c].pc \in {"decide", "done"} /\ calls[c].resp \in BackendResponses) =>
      /\ calls[c].dispatch # "threw"
      /\ (calls[c].resp.type = Success /\ calls[c].resp.simulation = Undefined)
           => \E i \in DOMAIN simulations :
                simulations[i].id = calls[c].id /\ simulations[i].state = Error

\* C13: under any interleaving of concurrent dispatches on different ids, an
\* entry that has reached a terminal state is not removed and not put back to an
\* earlier state by a write of another operation (the dispatch specification has
\* no explicit remove and no cleanup, so every step must keep such an entry).
C13_TerminalEntryKept ==
  [][\A i \in DOMAIN simulations :
       simulations[i].state \in Terminal =>
         \E j \in DOMAIN simulations' : simulations'[j] = simulations[i]]_vars

\* C18: within one dispatch addSimulation and the backend call are both started
\* before either is awaited, and the terminal operation (its read and its write
\* of the store) runs only after the backend call has resolved and the add has
\* completed its write.
C18_AddAndBackendBeforeTerminal ==
  \A c \in CallSlots :
    /\ calls[c].pc = "dispatch" =>
         (calls[c].addpc \in {"get", "set", "done"} /\ calls[c].resp # NoResp)
    /\ (calls[c].pc = "term" \/ calls[c].dispatch # "none") =>
         /\ calls[c].addpc = "done"
         /\ calls[c].resp \in BackendResponses
         /\ calls[c].writes >= 1
    /\ calls[c].writes = 2 => calls[c].dispatch = "resolved"

C18_Witness ==
  \E c \in CallSlots :
    /\ calls[c].pc = "decide"
    /\ calls[c].writes = 2
    /\ calls[c].resp.type = Revert

\* C19: whenever providerChanged is false, cachedProxy is a proxy whose target is
\* currentProvider; set() changes only currentProvider and providerChanged (which
\* it sets) and leaves the cached proxy alone; get() builds a proxy only when
\* providerChanged is true, around currentProvider, and then clears the flag.
C19_BindingInvariant ==
  [][ /\ ~providerChanged' =>
           /\ cachedProxy' \in 1..Len(proxies')
           /\ proxies'[cachedProxy'] = currentProvider'
      /\ (currentProvider' # currentProvider \/ (providerChanged' /\ ~providerChanged)) =>
           /\ providerChanged'
           /\ cachedProxy' = cachedProxy
           /\ proxies' = proxies
      /\ (proxies' # proxies \/ cachedProxy' # cachedProxy) =>
           /\ providerChanged /\ ~providerChanged'
           /\ currentProvider' = currentProvider
           /\ proxies' = Append(proxies, currentProvider)
           /\ cachedProxy' = Len(proxies') ]_vars

C19_Witness ==
  /\ ~providerChanged
  /\ Len(proxies) = 2
  /\ proxies[1] # proxies[2]
  /\ proxies[cachedProxy] = currentProvider

\* C20: for one intercepted call, the eth_chainId query and the forwarded
\* original call both go to the provider wrapped by the proxy the method was
\* read from, also when set(newProvider) replaces the current provider while the
\* call waits for the chain id or for the decision.
C20_SameProvider ==
  \A c \in CallSlots :
    (calls[c].chainTo # "none" /\ calls[c].via \in 1..Len(proxies)) =>
      /\ calls[c].chainTo = proxies[calls[c].via]
      /\ \A i \in DOMAIN calls[c].fwd : calls[c].fwd[i].to = calls[c].chainTo

C20_Witness ==
  /\ calls[1].pc = "done"
  /\ calls[1].decision = "Continue"
  /\ Len(calls[1].fwd) = 1
  /\ calls[1].fwd[1].to = calls[1].chainTo
  /\ currentProvider \in Providers
  /\ currentProvider # calls[1].chainTo

TerminalOps == {"complete", "revert", "error"}

IndicesOf(sims, id) == {i \in DOMAIN sims : sims[i].id = id}

\* C12: in every reachable state of the store, after any sequence of add, the
\* three terminal transitions, Confirmed/Rejected updates, remove and clear, an
\* entry has a simulation only if its state is Success and an error only if its
\* state is Revert or Error, so never both.
C12_PayloadMatchesState ==
  \A i \in DOMAIN simulations :
    /\ simulations[i].simulation # Undefined => simulations[i].state = Success
    /\ simulations[i].error # Undefined => simulations[i].state \in {Revert, Error}

\* C14: in every reachable state of the store no two stored requests have the
\* same id.
C14_UniqueIds ==
  \A i, j \in DOMAIN simulations :
    simulations[i].id = simulations[j].id => i = j

C14_Witness ==
  /\ Len(simulations) = 2
  /\ storeOp.op = "add"
  /\ simulations[1].state = Success

\* C15: a terminal transition applied a second time with the same id and payload
\* leaves the store as the first application left it; after a terminal
\* transition on a stored id there is exactly one entry for the id, and it has
\* the state and the payload of this latest write whatever was written before.
C15_TerminalIdempotent ==
  [][ storeOp'.op \in TerminalOps =>
        /\ storeOp'.repeat => simulations' = simulations
        /\ IndicesOf(simulations, storeOp'.id) # {} =>
             Cardinality(IndicesOf(simulations', storeOp'.id)) = 1
        /\ \A i \in IndicesOf(simulations', storeOp'.id) :
             /\ storeOp'.op = "complete" =>
                  /\ simulations'[i].state = Success
                  /\ simulations'[i].simulation = storeOp'.arg
             /\ storeOp'.op = "revert" =>
                  /\ simulations'[i].state = Revert
                  /\ simulations'[i].error = storeOp'.arg
             /\ storeOp'.op = "error" =>
                  /\ simulations'[i].state = Error
                  /\ simulations'[i].error = storeOp'.arg ]_vars

C15_Witness ==
  /\ storeOp.op = "complete"
  /\ storeOp.repeat
  /\ Len(simulations) = 2
  /\ \E i \in DOMAIN simulations :
       /\ simulations[i].id = storeOp.id
       /\ simulations[i].state = Success
       /\ simulations[i].error = RevertText

KeptBy(sims) == {i \in DOMAIN sims : sims[i].state \notin {Confirmed, Rejected}}

\* C16: clearOldSimulations removes all and only the Confirmed and Rejected
\* entries: no such entry remains, and the entries in the other four states are
\* all there afterwards, with the same fields and in the same relative order.
C16_ClearKeepsTheRest ==
  [][ storeOp'.op = "clear" =>
        /\ \A j \in DOMAIN simulations' :
             simulations'[j].state \in {Simulating, Success, Revert, Error}
        /\ Len(simulations') = Cardinality(KeptBy(simulations))
        /\ \A i \in KeptBy(simulations) :
             simulations'[Cardinality({k \in KeptBy(simulations) : k <= i})]
               = simulations[i] ]_vars

C16_Witness ==
  /\ storeOp.op = "clear"
  /\ storeOp.lenBefore = 2
  /\ Len(simulations) = 1
  /\ simulations[1].id = 2

\* C17: a terminal transition for an id changes only the entries with that id:
\* with no such entry the stored sequence stays as it is, and otherwise every
\* entry with another id keeps its position, its state and its fields.
C17_TerminalFrame ==
  [][ storeOp'.op \in TerminalOps =>
        /\ Len(simulations') = Len(simulations)
        /\ \A i \in DOMAIN simulations :
             simulations[i].id # storeOp'.id => simulations'[i] = simulations[i]
        /\ IndicesOf(simulations, storeOp'.id) = {} => simulations' = simulations ]_vars

C17_Witness ==
  /\ storeOp.op = "revert"
  /\ Len(simulations) = 2
  /\ \E i, j \in DOMAIN simulations :
       /\ simulations[i].id = storeOp.id
       /\ simulations[i].state = Revert
       /\ simulations[j].id # storeOp.id
       /\ simulations[j].state = Success

====
